---- MODULE Spec2Model ----
(***************************************************************************)
(* State-machine model of trapdata/antenna/fault_injector.py: the          *)
(* FaultInjector class, its construction from the process environment and  *)
(* its query / raise / logging operations.                                 *)
(*                                                                         *)
(* Strings are sequences of one-character strings, so that split, strip,   *)
(* lower, float() and the percent format are computed the way the code     *)
(* computes them.  Floats are fixed-point numbers with FracDigits decimal  *)
(* digits: the float 1.0 is the integer Scale.                             *)
(***************************************************************************)
EXTENDS Integers, Sequences, FiniteSets

VARIABLES
    env,                    \* os.environ: variable name -> [set, val]
    snap,                   \* history: os.environ as it was when __init__ ran
    pc,                     \* "start" | "running" | "exited" | "failed"
    enabled,                \* self.enabled
    worker_crash_rate,      \* self.worker_crash_rate
    network_error_rate,     \* self.network_error_rate
    corrupt_image_rate,     \* self.corrupt_image_rate
    image_404_rate,         \* self.image_404_rate
    transient_error_rate,   \* self.transient_error_rate
    permanent_error_images, \* self.permanent_error_images
    rng,                    \* number of draws taken from the shared random source
    call,                   \* the last call made on the injector and its outcome
    log,                    \* the messages the last call handed to the logger
    envChanges              \* number of changes made to os.environ

config == <<enabled, worker_crash_rate, network_error_rate, corrupt_image_rate,
            image_404_rate, transient_error_rate, permanent_error_images>>

vars == <<env, snap, pc, enabled, worker_crash_rate, network_error_rate,
          corrupt_image_rate, image_404_rate, transient_error_rate,
          permanent_error_images, rng, call, log, envChanges>>

----------------------------------------------------------------------------
(* Bounds of the model *)

\* decimal digits kept after the point by the fixed-point floats
FracDigits == 1

\* draws the shared random source can hand out in one behaviour
MaxDraws == 2

\* longest image identifier enumerated by the matching specification
MaxIdLen == 3

\* changes of the environment in one behaviour
MaxEnvChanges == 2

Scale == 10 ^ FracDigits

----------------------------------------------------------------------------
(* Strings *)

WS == {" ", "\t"}

Digits == <<"0", "1", "2", "3", "4", "5", "6", "7", "8", "9">>

UpperCase == <<"A", "B", "C", "D", "E", "F", "G", "H", "I", "J", "K", "L", "M",
               "N", "O", "P", "Q", "R", "S", "T", "U", "V", "W", "X", "Y", "Z">>

LowerCase == <<"a", "b", "c", "d", "e", "f", "g", "h", "i", "j", "k", "l", "m",
               "n", "o", "p", "q", "r", "s", "t", "u", "v", "w", "x", "y", "z">>

IsDigit(c) == \E i \in 1..10 : Digits[i] = c

DigitVal(c) == (CHOOSE i \in 1..10 : Digits[i] = c) - 1

\* str.lower()
lower(s) ==
    [i \in 1..Len(s) |->
        IF \E k \in 1..26 : UpperCase[k] = s[i]
        THEN LowerCase[CHOOSE k \in 1..26 : UpperCase[k] = s[i]]
        ELSE s[i]]

\* str.strip()
RECURSIVE strip(_)
strip(s) ==
    IF s = <<>> THEN s
    ELSE IF s[1] \in WS THEN strip(Tail(s))
    ELSE IF s[Len(s)] \in WS THEN strip(SubSeq(s, 1, Len(s) - 1))
    ELSE s

\* sep in s
Contains(s, sep) == \E i \in 1..Len(s) : s[i] = sep

\* str.split(sep): the pieces between the separators, in order
RECURSIVE split(_, _)
split(s, sep) ==
    IF ~Contains(s, sep) THEN <<s>>
    ELSE LET i == CHOOSE k \in 1..Len(s) :
                      s[k] = sep /\ \A j \in 1..(k - 1) : s[j] # sep
         IN  <<SubSeq(s, 1, i - 1)>> \o split(SubSeq(s, i + 1, Len(s)), sep)

\* the value of a string of decimal digits
RECURSIVE IntVal(_)
IntVal(ds) ==
    IF ds = <<>> THEN 0
    ELSE 10 * IntVal(SubSeq(ds, 1, Len(ds) - 1)) + DigitVal(ds[Len(ds)])

\* str(n) for a natural number n
RECURSIVE IntStr(_)
IntStr(n) ==
    IF n < 10 THEN <<Digits[n + 1]>>
    ELSE IntStr(n \div 10) \o <<Digits[(n % 10) + 1]>>

AllDigits(s) == \A i \in 1..Len(s) : IsDigit(s[i])

----------------------------------------------------------------------------
(* Floats *)

Num(v) == [kind |-> "num", val |-> v]
NaN == [kind |-> "nan", val |-> 0]
Inf(sign) == [kind |-> "inf", val |-> sign]
ValueError == [kind |-> "ValueError", val |-> 0]

\* the digits after the point, as a multiple of 1/Scale
FracVal(ds) ==
    IF Len(ds) >= FracDigits
    THEN IntVal(SubSeq(ds, 1, FracDigits))
    ELSE IntVal(ds) * (10 ^ (FracDigits - Len(ds)))

\* an unsigned decimal literal: digits, digits.digits, digits. or .digits
Unsigned(t) ==
    LET parts == split(t, ".")
    IN  IF Len(parts) = 1 /\ parts[1] # <<>> /\ AllDigits(parts[1])
        THEN Num(IntVal(parts[1]) * Scale)
        ELSE IF /\ Len(parts) = 2
                /\ AllDigits(parts[1]) /\ AllDigits(parts[2])
                /\ Len(parts[1]) + Len(parts[2]) > 0
        THEN Num(IntVal(parts[1]) * Scale + FracVal(parts[2]))
        ELSE IF lower(t) = <<"n", "a", "n">> THEN NaN
        ELSE IF lower(t) \in {<<"i", "n", "f">>,
                              <<"i", "n", "f", "i", "n", "i", "t", "y">>}
        THEN Inf(1)
        ELSE ValueError

Negate(f) ==
    IF f.kind = "num" THEN Num(0 - f.val)
    ELSE IF f.kind = "inf" THEN Inf(0 - f.val)
    ELSE f

\* float(s)
float(s) ==
    LET t == strip(s)
    IN  IF t = <<>> THEN ValueError
        ELSE IF t[1] = "-" THEN Negate(Unsigned(Tail(t)))
        ELSE IF t[1] = "+" THEN Unsigned(Tail(t))
        ELSE Unsigned(t)

\* str(x) for a float x that is a non-negative multiple of 1/Scale
str(x) ==
    LET frac == IntStr(x % Scale)
        pad  == [i \in 1..(FracDigits - Len(frac)) |-> "0"]
    IN  IntStr(x \div Scale) \o <<".">> \o pad \o frac

\* 0.0 <= rate <= 1.0; every comparison with a NaN is false
InUnitInterval(f) ==
    \/ f.kind = "num" /\ 0 <= f.val /\ f.val <= Scale

\* f"{rate:.1%}": the rate times 100 with one digit after the point, then "%"
Percent(rate) ==
    LET tenths == (rate * 1000) \div Scale
    IN  IntStr(tenths \div 10) \o <<".", Digits[(tenths % 10) + 1], "%">>

----------------------------------------------------------------------------
(* The environment *)

Absent == [set |-> FALSE, val |-> <<>>]
Val(s) == [set |-> TRUE, val |-> s]

ENABLED_VAR   == "AMI_TEST_FAULT_INJECTION_ENABLED"
CRASH_VAR     == "AMI_TEST_WORKER_CRASH_RATE"
NETWORK_VAR   == "AMI_TEST_NETWORK_ERROR_RATE"
CORRUPT_VAR   == "AMI_TEST_CORRUPT_IMAGE_RATE"
IMAGE_404_VAR == "AMI_TEST_IMAGE_404_RATE"
TRANSIENT_VAR == "AMI_TEST_TRANSIENT_ERROR_RATE"
PERMANENT_VAR == "AMI_TEST_PERMANENT_ERROR_IMAGES"

RateVars == {CRASH_VAR, NETWORK_VAR, CORRUPT_VAR, IMAGE_404_VAR, TRANSIENT_VAR}
EnvVars == RateVars \cup {ENABLED_VAR, PERMANENT_VAR}

\* os.getenv(name, default) in the environment e
getenv(e, name, default) == IF e[name].set THEN e[name].val ELSE default


----------------------------------------------------------------------------
(* Inputs *)

\* values drawn by random.random(), as multiples of 1/Scale in [0, 1)
Draws == {0, Scale \div 2, Scale - 1}

\* settings of a rate variable
RateChoices == {Absent, Val(<<"0", ".", "5">>), Val(<<"1", ".", "0">>)}

\* settings of AMI_TEST_FAULT_INJECTION_ENABLED
EnabledChoices == {Absent, Val(<<"T", "r", "u", "e">>)}

\* settings of AMI_TEST_PERMANENT_ERROR_IMAGES
PermanentChoices ==
    {Absent, Val(<<"a">>), Val(<<" ", "h", "/", "a", " ", ",", ",", "b">>)}

\* image identifiers handed to the image queries
Urls == {<<"a">>, <<"b">>, <<"h", "/", "a">>, <<"a", "/">>}

\* image identifiers handed to raise_image_error
RaiseUrls == {<<"a">>, <<"h", "/", "a">>}

\* error_type arguments of raise_image_error
ErrorTypes == {"404", "corrupt", "timeout", "unknown", "Timeout"}

EnvOf(crash, network, corrupt, img404, transient, en, perm) ==
    [v \in EnvVars |->
        CASE v = CRASH_VAR     -> crash
          [] v = NETWORK_VAR   -> network
          [] v = CORRUPT_VAR   -> corrupt
          [] v = IMAGE_404_VAR -> img404
          [] v = TRANSIENT_VAR -> transient
          [] v = ENABLED_VAR   -> en
          [] OTHER             -> perm]

----------------------------------------------------------------------------
(* Construction *)

\* what a call leaves behind: the operation, its arguments, the draws it took
\* from the random source (and the value drawn, -1 when none), the value it
\* returned ("-" when it did not return), the exception it raised, and the
\* answer of _is_permanent_error_image when the call asked for it
Call(op, url, etype, draws, draw, ret, exc, perm) ==
    [op |-> op, url |-> url, etype |-> etype, draws |-> draws, draw |-> draw,
     ret |-> ret, exc |-> exc, perm |-> perm]

NoCall == Call("none", <<>>, "", 0, -1, "-", "none", FALSE)

Msg(level, text, args) == [level |-> level, text |-> text, args |-> args]

\* _parse_rate without its range check
_parse_rate_Unchecked(e, env_var, default) ==
    LET f == float(getenv(e, env_var, str(default)))
    IN  IF f.kind = "ValueError"
        THEN [rate |-> default, exc |-> "none",
              log |-> <<Msg("error", "Invalid rate format", <<env_var>>)>>]
        ELSE [rate |-> f.val, exc |-> "none", log |-> <<>>]

\* FaultInjector._parse_rate: the rate stored for env_var, the exception that
\* leaves the method (none: ValueError is caught) and the messages it logs
_parse_rate(e, env_var, default) ==
    LET f == float(getenv(e, env_var, str(default)))
    IN  IF f.kind = "ValueError"
        THEN [rate |-> default, exc |-> "none",
              log |-> <<Msg("error", "Invalid rate format", <<env_var>>)>>]
        ELSE IF ~InUnitInterval(f)
        THEN [rate |-> default, exc |-> "none",
              log |-> <<Msg("error", "Invalid rate", <<env_var>>)>>]
        ELSE [rate |-> f.val, exc |-> "none", log |-> <<>>]

\* the set comprehension of __init__ over AMI_TEST_PERMANENT_ERROR_IMAGES
ParsePermanentImages(e) ==
    LET permanent_images_str == getenv(e, PERMANENT_VAR, <<>>)
        pieces == split(permanent_images_str, ",")
    IN  IF permanent_images_str # <<>>
        THEN {strip(pieces[i]) : i \in 1..Len(pieces)} \ {<<>>}
        ELSE {}

\* the enable flag of __init__
ParseEnabled(e) ==
    lower(getenv(e, ENABLED_VAR, <<"f", "a", "l", "s", "e">>))
        = <<"t", "r", "u", "e">>

\* the summary line shared by __init__ and log_statistics
RatesArgs(crash, network, corrupt, img404, transient, images) ==
    <<Percent(crash), Percent(network), Percent(corrupt), Percent(img404),
      Percent(transient), IntStr(Cardinality(images))>>

\* FaultInjector.__init__
Construct ==
    /\ pc = "start"
    /\ LET crash     == _parse_rate(env, CRASH_VAR, 0)
           network   == _parse_rate(env, NETWORK_VAR, 0)
           corrupt   == _parse_rate(env, CORRUPT_VAR, 0)
           img404    == _parse_rate(env, IMAGE_404_VAR, 0)
           transient == _parse_rate(env, TRANSIENT_VAR, 0)
           images    == ParsePermanentImages(env)
           en        == ParseEnabled(env)
           raised    == \E r \in {crash, network, corrupt, img404, transient} :
                            r.exc # "none"
           errors    == crash.log \o network.log \o corrupt.log \o img404.log
                            \o transient.log
       IN  /\ enabled' = en
           /\ worker_crash_rate' = crash.rate
           /\ network_error_rate' = network.rate
           /\ corrupt_image_rate' = corrupt.rate
           /\ image_404_rate' = img404.rate
           /\ transient_error_rate' = transient.rate
           /\ permanent_error_images' = images
           /\ pc' = IF raised THEN "failed" ELSE "running"
           /\ log' = IF raised THEN errors
                     ELSE IF ~en
                     THEN errors \o <<Msg("info", "Fault injection disabled", <<>>)>>
                     ELSE errors \o
                          <<Msg("warning", "FAULT INJECTION ENABLED",
                                RatesArgs(crash.rate, network.rate, corrupt.rate,
                                          img404.rate, transient.rate, images))>>
    /\ snap' = env
    /\ call' = Call("__init__", <<>>, "", 0, -1,
                    IF pc' = "running" THEN "None" ELSE "-",
                    IF pc' = "running" THEN "none" ELSE "ValueError", FALSE)
    /\ UNCHANGED <<env, rng, envChanges>>


----------------------------------------------------------------------------
(* Queries *)

\* _should_trigger without the enabled test
_should_trigger_IgnoringEnabled(rate, draw) ==
    [triggered |-> draw < rate, draws |-> 1, draw |-> draw]

\* _should_trigger comparing with <= instead of <
_should_trigger_AtMost(rate, draw) ==
    IF ~enabled
    THEN [triggered |-> FALSE, draws |-> 0, draw |-> -1]
    ELSE [triggered |-> draw <= rate, draws |-> 1, draw |-> draw]

\* _should_trigger with the operands of `and` swapped: the draw is taken first
_should_trigger_DrawFirst(rate, draw) ==
    [triggered |-> enabled /\ draw < rate, draws |-> 1,
     draw |-> IF enabled THEN draw ELSE -1]

\* FaultInjector._should_trigger, with draw the value random.random() returns
\* if it is called: `and` evaluates its right operand only when self.enabled
_should_trigger(rate, draw) ==
    IF ~enabled
    THEN [triggered |-> FALSE, draws |-> 0, draw |-> -1]
    ELSE [triggered |-> draw < rate, draws |-> 1, draw |-> draw]

\* _is_permanent_error_image looking up the full identifier only
_is_permanent_error_image_FullOnly(image_url) ==
    IF ~enabled \/ permanent_error_images = {}
    THEN FALSE
    ELSE image_url \in permanent_error_images

\* FaultInjector._is_permanent_error_image
_is_permanent_error_image(image_url) ==
    IF ~enabled \/ permanent_error_images = {}
    THEN FALSE
    ELSE LET pieces   == split(image_url, "/")
             filename == IF Contains(image_url, "/")
                         THEN pieces[Len(pieces)]
                         ELSE image_url
         IN  \/ image_url \in permanent_error_images
             \/ filename \in permanent_error_images

Bool(b) == IF b THEN "True" ELSE "False"

\* maybe_crash_worker logging the crash without leaving the process
maybe_crash_worker_NoExit ==
    /\ pc = "running"
    /\ \E d \in Draws :
         LET t == [triggered |-> enabled /\ d < worker_crash_rate,
                   draws |-> IF enabled THEN 1 ELSE 0,
                   draw |-> IF enabled THEN d ELSE -1]
         IN  /\ rng + t.draws <= MaxDraws
             /\ rng' = rng + t.draws
             /\ log' = IF t.triggered
                       THEN <<Msg("error", "SIMULATED WORKER CRASH", <<>>)>>
                       ELSE <<>>
             /\ call' = Call("maybe_crash_worker", <<>>, "", t.draws, t.draw,
                             "None", "none", FALSE)
    /\ UNCHANGED <<env, snap, pc, config, envChanges>>

\* FaultInjector.maybe_crash_worker
maybe_crash_worker ==
    /\ pc = "running"
    /\ \E d \in Draws :
         LET t == _should_trigger(worker_crash_rate, d)
         IN  /\ rng + t.draws <= MaxDraws
             /\ rng' = rng + t.draws
             /\ IF t.triggered
                THEN /\ pc' = "exited"
                     /\ log' = <<Msg("error", "SIMULATED WORKER CRASH", <<>>)>>
                     /\ call' = Call("maybe_crash_worker", <<>>, "", t.draws,
                                     t.draw, "-", "SystemExit", FALSE)
                ELSE /\ pc' = pc
                     /\ log' = <<>>
                     /\ call' = Call("maybe_crash_worker", <<>>, "", t.draws,
                                     t.draw, "None", "none", FALSE)
    /\ UNCHANGED <<env, snap, config, envChanges>>

\* the body shared by maybe_network_error and maybe_transient_error
RateQuery(op, rate, text) ==
    /\ pc = "running"
    /\ \E d \in Draws :
         LET t == _should_trigger(rate, d)
         IN  /\ rng + t.draws <= MaxDraws
             /\ rng' = rng + t.draws
             /\ log' = IF t.triggered THEN <<Msg("error", text, <<>>)>> ELSE <<>>
             /\ call' = Call(op, <<>>, "", t.draws, t.draw, Bool(t.triggered),
                             "none", FALSE)
    /\ UNCHANGED <<env, snap, pc, config, envChanges>>

\* maybe_network_error reading its rate from the environment on every call
maybe_network_error_Reread ==
    /\ pc = "running"
    /\ \E d \in Draws :
         LET rate == IF InUnitInterval(float(getenv(env, NETWORK_VAR, str(0))))
                     THEN float(getenv(env, NETWORK_VAR, str(0))).val
                     ELSE 0
             t    == [triggered |-> enabled /\ d < rate,
                      draws |-> IF enabled THEN 1 ELSE 0,
                      draw |-> IF enabled THEN d ELSE -1]
         IN  /\ rng + t.draws <= MaxDraws
             /\ rng' = rng + t.draws
             /\ network_error_rate' = rate
             /\ log' = IF t.triggered
                       THEN <<Msg("error", "SIMULATED NETWORK ERROR", <<>>)>>
                       ELSE <<>>
             /\ call' = Call("maybe_network_error", <<>>, "", t.draws, t.draw,
                             Bool(t.triggered), "none", FALSE)
    /\ UNCHANGED <<env, snap, pc, enabled, worker_crash_rate, corrupt_image_rate,
                   image_404_rate, transient_error_rate, permanent_error_images,
                   envChanges>>

\* FaultInjector.maybe_network_error
maybe_network_error ==
    RateQuery("maybe_network_error", network_error_rate,
              "SIMULATED NETWORK ERROR")

\* FaultInjector.maybe_transient_error
maybe_transient_error ==
    RateQuery("maybe_transient_error", transient_error_rate,
              "SIMULATED TRANSIENT ERROR")

\* the image queries without the look at the permanent list
ImageQuery_RateOnly(op, image_url, rate, permanentText, text) ==
    /\ pc = "running"
    /\ \E d \in Draws :
         LET t == [triggered |-> enabled /\ d < rate,
                   draws |-> IF enabled THEN 1 ELSE 0,
                   draw |-> IF enabled THEN d ELSE -1]
         IN  /\ rng + t.draws <= MaxDraws
             /\ rng' = rng + t.draws
             /\ log' = IF t.triggered
                       THEN <<Msg("error", text, <<image_url>>)>>
                       ELSE <<>>
             /\ call' = Call(op, image_url, "", t.draws, t.draw,
                             Bool(t.triggered), "none", FALSE)
    /\ UNCHANGED <<env, snap, pc, config, envChanges>>

\* the body shared by maybe_image_404 and maybe_corrupt_image: the permanent
\* list first, the draw only when the identifier is not on it
ImageQuery(op, image_url, rate, permanentText, text) ==
    /\ pc = "running"
    /\ IF _is_permanent_error_image(image_url)
       THEN /\ rng' = rng
            /\ log' = <<Msg("error", permanentText, <<image_url>>)>>
            /\ call' = Call(op, image_url, "", 0, -1, "True", "none", TRUE)
       ELSE \E d \in Draws :
              LET t == _should_trigger(rate, d)
              IN  /\ rng + t.draws <= MaxDraws
                  /\ rng' = rng + t.draws
                  /\ log' = IF t.triggered
                            THEN <<Msg("error", text, <<image_url>>)>>
                            ELSE <<>>
                  /\ call' = Call(op, image_url, "", t.draws, t.draw,
                                  Bool(t.triggered), "none", FALSE)
    /\ UNCHANGED <<env, snap, pc, config, envChanges>>

\* FaultInjector.maybe_image_404
maybe_image_404(image_url) ==
    ImageQuery("maybe_image_404", image_url, image_404_rate,
               "PERMANENT IMAGE ERROR (404)", "SIMULATED IMAGE 404")

\* FaultInjector.maybe_corrupt_image
maybe_corrupt_image(image_url) ==
    ImageQuery("maybe_corrupt_image", image_url, corrupt_image_rate,
               "PERMANENT IMAGE ERROR (corrupt)", "SIMULATED CORRUPT IMAGE")

----------------------------------------------------------------------------
(* Raising, payload and statistics *)

\* the exceptions random.choice picks from in raise_network_error
NetworkErrors == {"ConnectionError", "Timeout", "HTTPError"}

\* FaultInjector.raise_network_error: random.choice reads the shared random
\* source at least once
raise_network_error ==
    /\ pc = "running"
    /\ rng < MaxDraws
    /\ \E n \in 1..(MaxDraws - rng), e \in NetworkErrors :
         /\ rng' = rng + n
         /\ call' = Call("raise_network_error", <<>>, "", n, -1, "-", e, FALSE)
    /\ log' = <<>>
    /\ UNCHANGED <<env, snap, pc, config, envChanges>>

\* the chain of raise_image_error with "timeout" raising what "404" raises
ImageErrorOf_TimeoutAsHttp(error_type) ==
    IF error_type \in {"404", "timeout"} THEN "HTTPError"
    ELSE IF error_type = "corrupt" THEN "ValueError"
    ELSE "RuntimeError"

\* the if / elif chain of raise_image_error: the exception class raised
ImageErrorOf(error_type) ==
    IF error_type = "404" THEN "HTTPError"
    ELSE IF error_type = "corrupt" THEN "ValueError"
    ELSE IF error_type = "timeout" THEN "Timeout"
    ELSE "RuntimeError"

\* FaultInjector.raise_image_error
raise_image_error(image_url, error_type) ==
    /\ pc = "running"
    /\ call' = Call("raise_image_error", image_url, error_type, 0, -1, "-",
                    ImageErrorOf(error_type), FALSE)
    /\ log' = <<>>
    /\ UNCHANGED <<env, snap, pc, config, rng, envChanges>>

\* FaultInjector.get_corrupt_image_data
get_corrupt_image_data ==
    /\ pc = "running"
    /\ call' = Call("get_corrupt_image_data", <<>>, "", 0, -1,
                    "CORRUPT_IMAGE_DATA_NOT_VALID_JPEG_OR_PNG", "none", FALSE)
    /\ log' = <<>>
    /\ UNCHANGED <<env, snap, pc, config, rng, envChanges>>

\* log_statistics without the early return of a disabled injector
log_statistics_Unconditional ==
    /\ pc = "running"
    /\ log' = <<Msg("info", "Fault injection rates",
                    <<Percent(worker_crash_rate), Percent(network_error_rate),
                      Percent(corrupt_image_rate), Percent(image_404_rate),
                      Percent(transient_error_rate),
                      IntStr(Cardinality(permanent_error_images))>>)>>
    /\ call' = Call("log_statistics", <<>>, "", 0, -1, "None", "none", FALSE)
    /\ UNCHANGED <<env, snap, pc, config, rng, envChanges>>

\* FaultInjector.log_statistics
log_statistics ==
    /\ pc = "running"
    /\ log' = IF ~enabled
              THEN <<Msg("info", "Fault injection is disabled", <<>>)>>
              ELSE <<Msg("info", "Fault injection rates",
                         RatesArgs(worker_crash_rate, network_error_rate,
                                   corrupt_image_rate, image_404_rate,
                                   transient_error_rate,
                                   permanent_error_images))>>
    /\ call' = Call("log_statistics", <<>>, "", 0, -1, "None", "none", FALSE)
    /\ UNCHANGED <<env, snap, pc, config, rng, envChanges>>

\* the host or a test changes os.environ, before or after the injector is
\* constructed
EnvChange ==
    /\ pc \in {"start", "running"}
    /\ envChanges < MaxEnvChanges
    /\ \E v \in EnvVars :
         \E x \in (IF v \in RateVars THEN {Absent, Val(<<"1", ".", "0">>)}
                   ELSE IF v = ENABLED_VAR THEN EnabledChoices
                   ELSE {Absent, Val(<<"a">>)}) \ {env[v]} :
            env' = [env EXCEPT ![v] = x]
    /\ envChanges' = envChanges + 1
    /\ UNCHANGED <<snap, pc, config, rng, call, log>>

----------------------------------------------------------------------------
(* The injector of one process: constructed from the environment, then used *)

Fresh(e) ==
    /\ env = e
    /\ snap = e
    /\ pc = "start"
    /\ enabled = FALSE
    /\ worker_crash_rate = 0
    /\ network_error_rate = 0
    /\ corrupt_image_rate = 0
    /\ image_404_rate = 0
    /\ transient_error_rate = 0
    /\ permanent_error_images = {}
    /\ rng = 0
    /\ call = NoCall
    /\ log = <<>>
    /\ envChanges = 0

Init ==
    \E crash, network, corrupt, img404, transient \in RateChoices,
       en \in EnabledChoices, perm \in PermanentChoices :
        Fresh(EnvOf(crash, network, corrupt, img404, transient, en, perm))

Next ==
    \/ Construct
    \/ maybe_crash_worker
    \/ maybe_network_error
    \/ maybe_transient_error
    \/ \E u \in Urls : maybe_image_404(u)
    \/ \E u \in Urls : maybe_corrupt_image(u)
    \/ raise_network_error
    \/ \E u \in RaiseUrls, t \in ErrorTypes : raise_image_error(u, t)
    \/ get_corrupt_image_data
    \/ log_statistics

Spec == Init /\ [][Next]_vars


----------------------------------------------------------------------------
(* Construction over a wide range of rate settings *)

\* settings of a rate variable: unset, empty, not a number, out of range on
\* either side, the two ends of the range, a value inside it, and NaN
RateInputs ==
    {Absent, Val(<<>>), Val(<<"a", "b", "c">>), Val(<<"1", ".", "5">>),
     Val(<<"-", "0", ".", "1">>), Val(<<"0", ".", "0">>), Val(<<"1", ".", "0">>),
     Val(<<"0", ".", "5">>), Val(<<"n", "a", "n">>)}

InitParse ==
    \E crash, network, corrupt, img404, transient \in RateInputs,
       en \in {Absent, Val(<<"t", "r", "u", "e">>)} :
        Fresh(EnvOf(crash, network, corrupt, img404, transient, en, Absent))

NextParse ==
    \/ Construct
    \/ log_statistics

SpecParse == InitParse /\ [][NextParse]_vars

----------------------------------------------------------------------------
(* Permanent-failure matching over every short identifier *)

UrlChars == {"a", "b", "/"}

\* every identifier of at most MaxIdLen characters
AllUrls == UNION {[1..n -> UrlChars] : n \in 0..MaxIdLen}

\* settings of AMI_TEST_PERMANENT_ERROR_IMAGES
PermanentInputs ==
    {Absent,
     Val(<<"a">>),
     Val(<<" ", "a", "b", " ", ",", ",", "b">>),
     Val(<<"a", "/", "b">>),
     Val(<<"b", "/", ",", "/", "a">>),
     Val(<<",", " ", ",">>)}

InitMatch ==
    \E en \in {Absent, Val(<<"T", "R", "U", "E">>), Val(<<" ", "t", "r", "u", "e">>)},
       perm \in PermanentInputs :
        Fresh(EnvOf(Absent, Absent, Absent, Absent, Absent, en, perm))

NextMatch ==
    \/ Construct
    \/ \E u \in AllUrls : maybe_image_404(u)
    \/ \E u \in AllUrls : maybe_corrupt_image(u)

SpecMatch == InitMatch /\ [][NextMatch]_vars

----------------------------------------------------------------------------
(* An environment that changes around the construction *)

InitEnv == Fresh([v \in EnvVars |-> Absent])

NextEnv ==
    \/ Next
    \/ EnvChange

SpecEnv == InitEnv /\ [][NextEnv]_vars


----------------------------------------------------------------------------
(* Vocabulary of the properties *)

RateQueries == {"maybe_network_error", "maybe_transient_error"}
ImageQueries == {"maybe_image_404", "maybe_corrupt_image"}
BoolQueries == RateQueries \cup ImageQueries
MaybeQueries == BoolQueries \cup {"maybe_crash_worker"}

Constructed == pc \in {"running", "exited"}

\* the rate a query draws against
RateFor(op) ==
    CASE op = "maybe_crash_worker"    -> worker_crash_rate
      [] op = "maybe_network_error"   -> network_error_rate
      [] op = "maybe_corrupt_image"   -> corrupt_image_rate
      [] op = "maybe_image_404"       -> image_404_rate
      [] op = "maybe_transient_error" -> transient_error_rate

AllRates == {worker_crash_rate, network_error_rate, corrupt_image_rate,
             image_404_rate, transient_error_rate}

\* the part of x after its last "/", the whole of x when it has none
AfterLastSlash(x) ==
    LET slashes == {i \in 1..Len(x) : x[i] = "/"}
        last    == IF slashes = {} THEN 0
                   ELSE CHOOSE i \in slashes : \A j \in slashes : j <= i
    IN  SubSeq(x, last + 1, Len(x))

\* x is on the permanent-failure list, as a whole or by its file name
Listed(x) ==
    \/ x \in permanent_error_images
    \/ AfterLastSlash(x) \in permanent_error_images

\* the rate a setting of a rate variable stands for: the three settings
\* that are numbers inside [0.0, 1.0] keep their value, every other one is 0.0
ExpectedRate(x) ==
    IF x = Val(<<"0", ".", "5">>) THEN Scale \div 2
    ELSE IF x = Val(<<"1", ".", "0">>) THEN Scale
    ELSE 0

\* the configuration __init__ derives from the environment e
ConfigOf(e) ==
    <<ParseEnabled(e),
      _parse_rate(e, CRASH_VAR, 0).rate,
      _parse_rate(e, NETWORK_VAR, 0).rate,
      _parse_rate(e, CORRUPT_VAR, 0).rate,
      _parse_rate(e, IMAGE_404_VAR, 0).rate,
      _parse_rate(e, TRANSIENT_VAR, 0).rate,
      ParsePermanentImages(e)>>

----------------------------------------------------------------------------
(* C1 *)

\* C1: on an injector constructed with the enable flag off, whatever the
\* rates, the permanent-failure set and the draw, the four boolean queries
\* return False, also for a listed identifier, and maybe_crash_worker returns
\* without ending the process.
C1_DisabledNeverFaults ==
    (Constructed /\ ~enabled) =>
        /\ pc = "running"
        /\ call.op \in BoolQueries => call.ret = "False"
        /\ call.op = "maybe_crash_worker" => call.ret = "None" /\ call.exc = "none"

C1_Witness ==
    /\ pc = "running"
    /\ ~enabled
    /\ image_404_rate = Scale
    /\ call.op = "maybe_image_404"
    /\ call.url \in permanent_error_images
    /\ call.ret = "False"

----------------------------------------------------------------------------
(* C2 *)

\* C2: whatever the five rate variables are set to, construction completes
\* without raising and every stored rate lies in [0.0, 1.0]: a number inside
\* the interval, ends included, is stored as it is and every other setting
\* is stored as the default 0.0.
C2_RatesInUnitInterval ==
    pc # "start" =>
        /\ pc = "running"
        /\ call.op = "__init__" => call.exc = "none"
        /\ \A r \in AllRates : 0 <= r /\ r <= Scale
        /\ worker_crash_rate = ExpectedRate(snap[CRASH_VAR])
        /\ network_error_rate = ExpectedRate(snap[NETWORK_VAR])
        /\ corrupt_image_rate = ExpectedRate(snap[CORRUPT_VAR])
        /\ image_404_rate = ExpectedRate(snap[IMAGE_404_VAR])
        /\ transient_error_rate = ExpectedRate(snap[TRANSIENT_VAR])

C2_Witness ==
    /\ pc = "running"
    /\ snap[CRASH_VAR] = Val(<<"1", ".", "5">>)
    /\ snap[NETWORK_VAR] = Val(<<"a", "b", "c">>)
    /\ snap[CORRUPT_VAR] = Val(<<"-", "0", ".", "1">>)
    /\ snap[IMAGE_404_VAR] = Val(<<"1", ".", "0">>)
    /\ snap[TRANSIENT_VAR] = Val(<<"n", "a", "n">>)
    /\ worker_crash_rate = 0
    /\ image_404_rate = Scale

----------------------------------------------------------------------------
(* C3 *)

\* C3: on an enabled injector a probabilistic query (maybe_network_error,
\* maybe_transient_error, and the image queries on an identifier that is not
\* listed) reports a fault exactly when the draw of that call is strictly
\* below the query's rate; so rate 0.0 never reports and rate 1.0 always does.
C3_TriggerIffDrawBelowRate ==
    (/\ Constructed /\ enabled
     /\ \/ call.op \in RateQueries
        \/ call.op \in ImageQueries /\ ~Listed(call.url)) =>
        /\ call.draw \in Draws
        /\ call.ret = "True" <=> call.draw < RateFor(call.op)
        /\ RateFor(call.op) = 0 => call.ret = "False"
        /\ RateFor(call.op) = Scale => call.ret = "True"

C3_Witness ==
    /\ enabled
    /\ call.op = "maybe_image_404"
    /\ ~Listed(call.url)
    /\ image_404_rate = Scale \div 2
    /\ call.draw = Scale \div 2
    /\ call.ret = "False"

----------------------------------------------------------------------------
(* C4 *)

\* C4: on an enabled injector the image queries return True for a listed
\* identifier whatever their rate and the draw, after any earlier calls; and
\* with all five rates 0.0 they return False for an identifier not listed.
C4_ListedAlwaysFails ==
    (Constructed /\ enabled /\ call.op \in ImageQueries) =>
        /\ Listed(call.url) => call.ret = "True"
        /\ (AllRates = {0} /\ ~Listed(call.url)) => call.ret = "False"

C4_Witness ==
    /\ enabled
    /\ call.op = "maybe_corrupt_image"
    /\ corrupt_image_rate = 0
    /\ Listed(call.url)
    /\ call.url \notin permanent_error_images
    /\ call.ret = "True"
    /\ rng > 0

----------------------------------------------------------------------------
(* C5 *)

\* C5: on an enabled injector with a non-empty permanent-failure set S, the
\* permanent-failure match of x succeeds exactly when x is in S or the part
\* of x after its last "/" (all of x when it has no "/") is in S.
C5_MatchFullOrFilename ==
    (/\ Constructed /\ enabled /\ permanent_error_images # {}
     /\ call.op \in ImageQueries) =>
        (call.perm <=> Listed(call.url))

C5_Witness ==
    /\ enabled
    /\ permanent_error_images = {<<"a">>}
    /\ call.op = "maybe_image_404"
    /\ call.url = <<"b", "/", "a">>
    /\ call.perm


----------------------------------------------------------------------------
(* C6 *)

\* C6: once constructed, the enabled flag, the five rates and the
\* permanent-failure set stay what __init__ derived from the environment as
\* it was at construction, through every operation and every later change of
\* the environment, and the verdict of a query is the one that snapshot gives.
C6_ConfigIsConstructionSnapshot ==
    Constructed =>
        /\ config = ConfigOf(snap)
        /\ call.op = "maybe_network_error" =>
              (call.ret = "True" <=>
                  /\ ParseEnabled(snap)
                  /\ call.draw < _parse_rate(snap, NETWORK_VAR, 0).rate)

C6_Witness ==
    /\ pc = "running"
    /\ snap[ENABLED_VAR] = Val(<<"T", "r", "u", "e">>)
    /\ snap[NETWORK_VAR] = Absent
    /\ env[NETWORK_VAR] = Val(<<"1", ".", "0">>)
    /\ network_error_rate = 0
    /\ call.op = "maybe_network_error"
    /\ call.draw = 0
    /\ call.ret = "False"

----------------------------------------------------------------------------
(* C7 *)

\* what C7 asks of one step
C7_Step ==
    /\ (pc = "running" /\ call'.op = "maybe_crash_worker") =>
          /\ pc' = "exited" <=>
                (enabled /\ call'.draw \in Draws /\ call'.draw < worker_crash_rate)
          /\ pc' = "exited" => call'.ret = "-" /\ call'.exc = "SystemExit"
          /\ pc' # "exited" =>
                /\ pc' = "running"
                /\ call'.ret = "None" /\ call'.exc = "none"
                /\ config' = config
                /\ env' = env
    /\ pc' = "exited" => call'.op = "maybe_crash_worker"
    /\ pc = "exited" => UNCHANGED vars

\* C7: maybe_crash_worker ends the process exactly when the injector is
\* enabled and the draw of that call is strictly below worker_crash_rate; a
\* call that ends the process does not return and nothing happens after it,
\* a call that does not returns None and leaves the injector as it was.
C7_CrashIffTriggered == [][C7_Step]_vars

C7_Witness ==
    /\ pc = "exited"
    /\ call.op = "maybe_crash_worker"
    /\ worker_crash_rate = Scale \div 2
    /\ call.draw = 0
    /\ call.ret = "-"

----------------------------------------------------------------------------
(* C8 *)

KnownErrorTypes == {"404", "corrupt", "timeout"}

\* what C8 asks of one step
C8_Step ==
    call'.op = "raise_image_error" =>
        /\ call'.ret = "-"
        /\ call'.exc # "none"
        /\ call.op = "raise_image_error" =>
              /\ (call.etype = call'.etype) => (call.exc = call'.exc)
              /\ (/\ call.etype # call'.etype
                  /\ {call.etype, call'.etype} \cap KnownErrorTypes # {})
                    => (call.exc # call'.exc)
              /\ ({call.etype, call'.etype} \cap KnownErrorTypes = {})
                    => (call.exc = call'.exc)

\* C8: raise_image_error never returns normally, enabled or not; over two
\* calls in a row, the same error_type raises the same exception, two
\* different error_types of which one is "404", "corrupt" or "timeout" raise
\* different exceptions, and two error_types outside those three raise the
\* same, generic one.
C8_DistinctFailureKinds == [][C8_Step]_vars

C8_Witness ==
    /\ ~enabled
    /\ call.op = "raise_image_error"
    /\ call.etype = "Timeout"
    /\ call.exc = "RuntimeError"
    /\ call.ret = "-"

----------------------------------------------------------------------------
(* C9 *)

\* the number a percentage such as 50.0% stands for, as a float
PercentValue(p) == float(SubSeq(p, 1, Len(p) - 1))

\* the message carries the five rates, in the order worker crash, network,
\* corrupt image, image 404, transient, and then the size of the set
CarriesRatesAndSize(m) ==
    /\ Len(m.args) = 6
    /\ \A i \in 1..5 : m.args[i][Len(m.args[i])] = "%"
    /\ PercentValue(m.args[1]) = Num(100 * worker_crash_rate)
    /\ PercentValue(m.args[2]) = Num(100 * network_error_rate)
    /\ PercentValue(m.args[3]) = Num(100 * corrupt_image_rate)
    /\ PercentValue(m.args[4]) = Num(100 * image_404_rate)
    /\ PercentValue(m.args[5]) = Num(100 * transient_error_rate)
    /\ float(m.args[6]) = Num(Cardinality(permanent_error_images) * Scale)

\* C9 as stated: in every injector state, enabled or disabled,
\* log_statistics emits all five rates and the size of the
\* permanent-failure set, and returns no value.
C9_Original ==
    call.op = "log_statistics" =>
        /\ call.ret = "None"
        /\ Len(log) = 1
        /\ CarriesRatesAndSize(log[1])

\* C9 as amended: log_statistics returns no value and emits one message; on
\* an enabled injector the message carries the five rates as percentages and
\* the size of the permanent-failure set, on a disabled injector it is only
\* the notice that fault injection is disabled, with no rate and no size.
C9_StatisticsWhenEnabled ==
    call.op = "log_statistics" =>
        /\ call.ret = "None"
        /\ Len(log) = 1
        /\ enabled => CarriesRatesAndSize(log[1])
        /\ ~enabled =>
              /\ log[1].text = "Fault injection is disabled"
              /\ log[1].args = <<>>

C9_Witness ==
    /\ call.op = "log_statistics"
    /\ ~enabled
    /\ network_error_rate = Scale
    /\ permanent_error_images # {}
    /\ log[1].args = <<>>

----------------------------------------------------------------------------
(* C10 *)

\* what C10 asks of one step
C10_Step ==
    (pc = "running" /\ call'.op \in MaybeQueries) =>
        /\ call'.draws = rng' - rng
        /\ rng' - rng =
              IF ~enabled THEN 0
              ELSE IF call'.op \in ImageQueries /\ Listed(call'.url) THEN 0
              ELSE 1

\* C10: a maybe_* call takes a draw from the shared random source only when
\* the draw can decide its verdict: none on a disabled injector, none in an
\* image query on a listed identifier of an enabled injector, exactly one in
\* every other maybe_* call; so calls on a disabled injector leave the
\* random source where it was.
C10_DrawOnlyWhenDeciding == [][C10_Step]_vars

C10_Witness ==
    /\ enabled
    /\ call.op = "maybe_image_404"
    /\ Listed(call.url)
    /\ image_404_rate = Scale
    /\ call.draws = 0
    /\ rng = 0

====
